---- MODULE Spec2Model ----
(***************************************************************************)
(* Model of expense_bot.py: the calendar range selector (handle_calendar,  *)
(* send_calendar, choose_period_start), the period report                  *)
(* (generate_report_for_period) and the expense entry handler              *)
(* (handle_expense).                                                       *)
(*                                                                         *)
(* The bot runs on one asyncio event loop: a handler runs without          *)
(* interruption from one `await` to the next, and handlers of different    *)
(* updates interleave at their awaits.  Every action below is one such     *)
(* uninterrupted piece of a handler.                                       *)
(***************************************************************************)
EXTENDS Integers, Sequences, FiniteSets, TLC

(***************************************************************************)
(* Bounds of the model.                                                    *)
(***************************************************************************)
\* days 1..MaxDay of every month carry a day button
MaxDay == 2
\* the calendars stay within MonthSpan months after FirstAnchor
MonthSpan == 1
\* calendars displayed at once, beyond which no further one is opened
MaxScreens == 1
\* handle_calendar coroutines suspended in a report at once
MaxCalls == 2
\* pieces a text is typed from
MaxFragments == 4
\* rows of a ledger that reports are made of
MaxRows == 3
\* months before and after FirstAnchor that the navigation alone is followed over
NavSpan == 40

FirstAnchor == <<2023, 12>>

\* Telegram users; the private chat of a user has the id of the user.
Users == {1, 2}
PrivateChats == {1}
\* A group chat, with both users as members.
GroupChats == {3}
Chats == PrivateChats \cup GroupChats
Members(c) == IF c \in GroupChats THEN Users ELSE {c}

(***************************************************************************)
(* Dates.  A date is <<year, month, day>>.                                 *)
(***************************************************************************)
NoDate == <<0, 0, 0>>

IsLeap(y) == (y % 4 = 0 /\ y % 100 # 0) \/ y % 400 = 0

\* calendar.monthrange(year, month)[1]
DaysInMonth(y, m) ==
    IF m = 2 THEN (IF IsLeap(y) THEN 29 ELSE 28)
    ELSE IF m \in {4, 6, 9, 11} THEN 30 ELSE 31

Min(a, b) == IF a < b THEN a ELSE b

\* months since year 0, used to bound the window and to state the claims
MonthIndex(y, m) == y * 12 + (m - 1)

InWindow(y, m) ==
    /\ MonthIndex(y, m) >= MonthIndex(FirstAnchor[1], FirstAnchor[2])
    /\ MonthIndex(y, m) <= MonthIndex(FirstAnchor[1], FirstAnchor[2]) + MonthSpan

WindowYears == FirstAnchor[1]..(FirstAnchor[1] + (MonthSpan \div 12) + 1)

Anchors == {a \in WindowYears \X (1..12) : InWindow(a[1], a[2])}

\* the day buttons of the grid built from calendar.monthcalendar(year, month)
DaysShown(y, m) == 1..Min(MaxDay, DaysInMonth(y, m))

Dates == {<<a[1], a[2], d>> : a \in Anchors, d \in 1..MaxDay}

\* a faulty DateLT, <= for <: C1 is tested against it
DateLE(a, b) ==
    \/ a[1] < b[1]
    \/ a[1] = b[1] /\ a[2] < b[2]
    \/ a[1] = b[1] /\ a[2] = b[2] /\ a[3] <= b[3]

\* date.__lt__
DateLT(a, b) ==
    \/ a[1] < b[1]
    \/ a[1] = b[1] /\ a[2] < b[2]
    \/ a[1] = b[1] /\ a[2] = b[2] /\ a[3] < b[3]

\* a faulty AddMonths, which keeps the year when the month falls below
\* January: C7 is tested against it
AddMonthsNoBorrow(dt, n) ==
    LET m0 == dt[2] + n
        y1 == IF m0 > 12 THEN dt[1] + 1 ELSE dt[1]
        m1 == IF m0 > 12 THEN m0 - 12 ELSE IF m0 < 1 THEN m0 + 12 ELSE m0
    IN  <<y1, m1, Min(dt[3], DaysInMonth(y1, m1))>>

\* date + relativedelta(months=n) for n in {-1, +1}
AddMonths(dt, n) ==
    LET m0 == dt[2] + n
        y1 == IF m0 > 12 THEN dt[1] + 1 ELSE IF m0 < 1 THEN dt[1] - 1 ELSE dt[1]
        m1 == IF m0 > 12 THEN m0 - 12 ELSE IF m0 < 1 THEN m0 + 12 ELSE m0
    IN  <<y1, m1, Min(dt[3], DaysInMonth(y1, m1))>>

(***************************************************************************)
(* Calendar messages and their inline keyboards (send_calendar).           *)
(***************************************************************************)
Modes == {"start", "end"}

\* callback_data of one button: cal_<k>_<y>_<m>[_<d>][_<mode>]
Button(k, y, m, d, mode) == [k |-> k, y |-> y, m |-> m, d |-> d, mode |-> mode]

\* a faulty CalendarMsg, with the "only this day" button in either mode: C8 is
\* tested against it
CalendarMsgAlwaysSingle(chat_id, target_date, mode) ==
    [chat |-> chat_id, y |-> target_date[1], m |-> target_date[2], mode |-> mode,
     single |-> target_date[3]]

\* the message send_calendar(chat_id, target_date, mode) sends; `single` is the
\* day of the "only this day" button, 0 when the keyboard has none
CalendarMsg(chat_id, target_date, mode) ==
    [chat |-> chat_id, y |-> target_date[1], m |-> target_date[2], mode |-> mode,
     single |-> IF mode = "start" THEN target_date[3] ELSE 0]

\* the buttons of a calendar message that reach handle_calendar (the "ignore"
\* buttons do not pass its "cal_" filter)
Keyboard(s) ==
    {Button("prev", s.y, s.m, 0, s.mode), Button("next", s.y, s.m, 0, s.mode)}
    \cup {Button("day", s.y, s.m, d, s.mode) : d \in DaysShown(s.y, s.m)}
    \cup (IF s.single # 0 THEN {Button("single", s.y, s.m, s.single, "none")} ELSE {})

VARIABLES
    user_selections,  \* chat_id -> start date of the live selection, NoDate: no key
    screens,          \* calendar messages displayed, with their keyboards
    calls,            \* the handle_calendar coroutines suspended in
                      \* generate_report_for_period, oldest first: who tapped, the
                      \* branch, and the arguments chat_id, start_date, end_date
    ledger,           \* table expenses: committed rows, in insertion order
    last_out,         \* the latest message, edit or alert the bot sent
    picked,           \* history: user -> chat -> date of the user's own latest
                      \* start-mode day pick there not yet consumed by an end pick
    draft,            \* the text a user is typing
    msg,              \* the text message handle_expense handled last, and its sender
    reply,            \* what handle_expense answered to it
    report,           \* the report that last_out is, when it is one: its lines,
                      \* its total and whether the chart was drawn
    tx                \* the handle_expense coroutine suspended at a statement of
                      \* its connection: the entries left, the rows inserted and
                      \* not committed, the count and the errors so far

vars == <<user_selections, screens, calls, ledger, last_out, picked, draft, msg, reply,
          report, tx>>

\* the variables of the text messages
entryVars == <<draft, msg, reply, tx>>

(***************************************************************************)
(* Text.  A text is a sequence of characters, a character a string: "er"   *)
(* and "ER" stand for the Cyrillic small and capital letter er (the        *)
(* currency marker), "u" and "be" for the Cyrillic small letters u and be. *)
(***************************************************************************)
DigitChars == {"0", "1", "2", "3", "4", "5", "6", "7", "8", "9"}
\* \s, and what str.strip() removes
SpaceChars == {" ", "\n"}
\* the class [\n,;] of the split
SepChars == {"\n", ",", ";"}
\* the class [\d,\.] of the amount
AmountChars == DigitChars \cup {",", "."}
\* the class of the currency marker, matched against the lowered entry
MarkerChars == {"er", "u", "be"}

DigitValue(c) ==
    CASE c = "0" -> 0 [] c = "1" -> 1 [] c = "2" -> 2 [] c = "3" -> 3 [] c = "4" -> 4
      [] c = "5" -> 5 [] c = "6" -> 6 [] c = "7" -> 7 [] c = "8" -> 8 [] c = "9" -> 9

\* a faulty LowerChar, which lowers nothing: C13 is tested against it
KeepChar(c) == c

\* str.lower(), one character
LowerChar(c) == CASE c = "A" -> "a" [] c = "ER" -> "er" [] OTHER -> c

Lower(t) == [i \in 1..Len(t) |-> LowerChar(t[i])]

RECURSIVE LStrip(_)
LStrip(t) == IF t # <<>> /\ Head(t) \in SpaceChars THEN LStrip(Tail(t)) ELSE t

RECURSIVE RStrip(_)
RStrip(t) ==
    IF t # <<>> /\ t[Len(t)] \in SpaceChars THEN RStrip(SubSeq(t, 1, Len(t) - 1)) ELSE t

\* str.strip()
Strip(t) == LStrip(RStrip(t))

\* re.split(r'[\n,;]+', text): the pieces between the runs of separators,
\* with an empty piece before a leading and after a trailing run
RECURSIVE SplitFrom(_, _, _, _)
SplitFrom(t, i, cur, acc) ==
    IF i > Len(t) THEN Append(acc, cur)
    ELSE IF t[i] \in SepChars
         THEN IF i > 1 /\ t[i - 1] \in SepChars
              THEN SplitFrom(t, i + 1, cur, acc)
              ELSE SplitFrom(t, i + 1, <<>>, Append(acc, cur))
         ELSE SplitFrom(t, i + 1, Append(cur, t[i]), acc)

Split(t) == SplitFrom(t, 1, <<>>, <<>>)

\* a faulty StripAll, which keeps the blank pieces: C9 is tested against it
StripAllKeepBlank(ps) == [i \in 1..Len(ps) |-> Strip(ps[i])]

\* entries = [entry.strip() for entry in entries if entry.strip()]
RECURSIVE StripAll(_)
StripAll(ps) ==
    IF ps = <<>> THEN <<>>
    ELSE IF Strip(Head(ps)) = <<>> THEN StripAll(Tail(ps))
         ELSE <<Strip(Head(ps))>> \o StripAll(Tail(ps))

Entries(t) == StripAll(Split(t))

\* length of the longest prefix of t from position i on whose characters are in cls
RECURSIVE Run(_, _, _)
Run(t, i, cls) == IF i <= Len(t) /\ t[i] \in cls THEN 1 + Run(t, i + 1, cls) ELSE 0

From(t, i) == SubSeq(t, i, Len(t))

\* anything . matches
NoNewline(t) == \A i \in 1..Len(t) : t[i] # "\n"

\* re.match(r'^([\d,\.]+)\s*[marker]*\s+(.+)$', e): the groups 1 and 2, or no
\* match.  The amount takes its whole run; \s*, the marker and \s+ take
\* their longest runs; when no white space is left for \s+ the match backs up
\* to give \s+ the last character of the first run of white space, and the
\* label starts right after that run.
Match(e) ==
    LET p  == Run(e, 1, AmountChars)
        w1 == Run(e, p + 1, SpaceChars)
        m  == Run(e, p + w1 + 1, MarkerChars)
        w2 == Run(e, p + w1 + m + 1, SpaceChars)
        greedy == From(e, p + w1 + m + w2 + 1)
        backed == From(e, p + w1 + 1)
    IN  IF p >= 1 /\ m >= 1 /\ w2 >= 1 /\ greedy # <<>> /\ NoNewline(greedy)
        THEN [ok |-> TRUE, amount |-> SubSeq(e, 1, p), label |-> greedy]
        ELSE IF p >= 1 /\ w1 >= 1 /\ backed # <<>> /\ NoNewline(backed)
        THEN [ok |-> TRUE, amount |-> SubSeq(e, 1, p), label |-> backed]
        ELSE [ok |-> FALSE, amount |-> <<>>, label |-> <<>>]

\* str.replace(',', '.')
CommaToDot(t) == [i \in 1..Len(t) |-> IF t[i] = "," THEN "." ELSE t[i]]

CountOf(t, c) == Cardinality({i \in 1..Len(t) : t[i] = c})

RECURSIVE Pow10(_)
Pow10(n) == IF n = 0 THEN 1 ELSE 10 * Pow10(n - 1)

\* the digits of t read as one number (the dot left out)
RECURSIVE DigitsValue(_)
DigitsValue(t) ==
    IF t = <<>> THEN 0
    ELSE IF t[Len(t)] = "." THEN DigitsValue(SubSeq(t, 1, Len(t) - 1))
    ELSE DigitValue(t[Len(t)]) + 10 * DigitsValue(SubSeq(t, 1, Len(t) - 1))

\* float(t) for a text of digits and dots: a ValueError unless t has a digit
\* and at most one dot; else the number num / 10^frac
ToFloat(t) ==
    IF CountOf(t, ".") > 1 \/ CountOf(t, ".") = Len(t)
    THEN [ok |-> FALSE, num |-> 0, frac |-> 0]
    ELSE [ok |-> TRUE, num |-> DigitsValue(t),
          frac |-> IF CountOf(t, ".") = 0 THEN 0
                   ELSE Len(t) - (CHOOSE i \in 1..Len(t) : t[i] = ".")]

\* round(amount, 2), in hundredths.  A float is no exact decimal, so a decimal
\* written with a 5 and nothing but zeros after its second place rounds up or
\* down with the float nearest to it: no such amount is drawn here
Round2(f) ==
    IF f.frac <= 2 THEN f.num * Pow10(2 - f.frac)
    ELSE LET unit == Pow10(f.frac - 2)
             q == f.num \div unit
             r == f.num % unit
         IN  CASE 2 * r < unit -> q
               [] 2 * r > unit -> q + 1

\* amount <= 0
NotPositive(f) == f.num <= 0

\* a faulty ParseEntry, with the message of the except clause for an entry that
\* does not match: C11 is tested against it
ParseEntryNoMatchAsAmount(entry) ==
    LET mt == Match(Lower(entry))
        f  == ToFloat(CommaToDot(mt.amount))
    IN  IF ~mt.ok THEN [kind |-> "bad_amount", text |-> entry, category |-> <<>>, amount |-> 0]
        ELSE IF ~f.ok \/ NotPositive(f)
        THEN [kind |-> "bad_amount", text |-> entry, category |-> <<>>, amount |-> 0]
        ELSE [kind |-> "stored", text |-> entry, category |-> Strip(mt.label),
              amount |-> Round2(f)]

\* One turn of the loop of handle_expense: the outcome of one entry.
\*   "bad_format": no match; "bad_amount": the try block raised;
\*   "stored": INSERT INTO expenses (user_id, category, amount)
ParseEntry(entry) ==
    LET mt == Match(Lower(entry))
        f  == ToFloat(CommaToDot(mt.amount))
    IN  IF ~mt.ok THEN [kind |-> "bad_format", text |-> entry, category |-> <<>>, amount |-> 0]
        ELSE IF ~f.ok \/ NotPositive(f)
        THEN [kind |-> "bad_amount", text |-> entry, category |-> <<>>, amount |-> 0]
        ELSE [kind |-> "stored", text |-> entry, category |-> Strip(mt.label),
              amount |-> Round2(f)]

\* the outcomes of the entries, in the order of the loop
Outcomes(entries) == [i \in 1..Len(entries) |-> ParseEntry(entries[i])]

(***************************************************************************)
(* The ledger (table expenses) and the period query.                       *)
(***************************************************************************)
\* SELECT ... WHERE user_id = ? AND date(created_at) BETWEEN ? AND ?
\* ORDER BY created_at: the matching rows, oldest first
QueryPeriod(owner, start_date, end_date) ==
    SelectSeq(ledger, LAMBDA r :
        /\ r.user_id = owner
        /\ ~DateLT(r.created, start_date)
        /\ ~DateLT(end_date, r.created))

\* SELECT ... WHERE user_id = ?: all the rows of the owner
QueryAll(owner) == SelectSeq(ledger, LAMBDA r : r.user_id = owner)

\* ... AND strftime('%Y', created_at) = ? AND strftime('%m', created_at) = ?
QueryMonth(owner, now) ==
    SelectSeq(ledger, LAMBDA r :
        /\ r.user_id = owner
        /\ r.created[1] = now[1]
        /\ r.created[2] = now[2])

RECURSIVE SumAmounts(_)
SumAmounts(rows) == IF rows = <<>> THEN 0 ELSE Head(rows).amount + SumAmounts(Tail(rows))

\* a faulty Groups, one group to a row: C14 is tested against it
GroupsPerRow(rows) ==
    {[category |-> rows[i].category, total |-> rows[i].amount] : i \in 1..Len(rows)}

\* df.groupby("category")["amount"].sum(), and GROUP BY category with
\* SUM(amount): one line to a category, with the sum of its rows
Groups(rows) ==
    {[category |-> c,
      total |-> SumAmounts(SelectSeq(rows, LAMBDA r : r.category = c))] :
        c \in {rows[i].category : i \in 1..Len(rows)}}

\* a faulty Sorted, which lists the groups in any order: C15 is tested against it
Unsorted(g) ==
    {l \in [1..Cardinality(g) -> g] :
        \A i \in 1..Cardinality(g) : \A j \in 1..Cardinality(g) : i # j => l[i] # l[j]}

\* sort_values(ascending=False), and ORDER BY SUM(amount) DESC: the groups by
\* falling total.  Neither the default sort of sort_values (quicksort, not
\* stable) nor SQL fixes the order of groups with equal totals: every such
\* order is a result
Sorted(g) ==
    {l \in [1..Cardinality(g) -> g] :
        /\ \A i \in 1..Cardinality(g) : \A j \in 1..Cardinality(g) : i # j => l[i] # l[j]
        /\ \A i \in 1..(Cardinality(g) - 1) : l[i].total >= l[i + 1].total}

\* summary.sum(), and total += amount over the rows of the result
RECURSIVE SumTotals(_)
SumTotals(lines) == IF lines = <<>> THEN 0 ELSE Head(lines).total + SumTotals(Tail(lines))

NoReport == [kind |-> "none", lines |-> <<>>, total |-> 0, charted |-> FALSE]

\* the text of a report, and generate_chart(summary) when it is called
ReportOf(kind, lines, charted) ==
    [kind |-> kind, lines |-> lines, total |-> SumTotals(lines), charted |-> charted]

\* a faulty GenerateReportForPeriod, without the test `if not rows`: C16 is
\* tested against it
GenerateReportUnguarded(chat_id, start_date, end_date) ==
    \E lines \in Sorted(Groups(QueryPeriod(chat_id, start_date, end_date))) :
        /\ last_out' = "report_and_chart"
        /\ report' = ReportOf("period", lines, TRUE)

\* generate_report_for_period(chat_id, start_date, end_date), from the query
\* to its last message: the notice when no row matches, else the text and the
\* chart of the summary
GenerateReportForPeriod(chat_id, start_date, end_date) ==
    IF QueryPeriod(chat_id, start_date, end_date) = <<>>
    THEN /\ last_out' = "no_data"
         /\ report' = NoReport
    ELSE \E lines \in Sorted(Groups(QueryPeriod(chat_id, start_date, end_date))) :
            /\ last_out' = "report_and_chart"
            /\ report' = ReportOf("period", lines, TRUE)

(***************************************************************************)
(* handle_calendar.  A branch that reads or writes nothing after its first *)
(* await but the chat's messages is one action; the branches that call     *)
(* generate_report_for_period are suspended in it, and are cut at its      *)
(* awaits.                                                                 *)
(***************************************************************************)
\* user u taps button b of the displayed calendar s: callback.data is b,
\* callback.message is s, chat_id is s.chat
Tap(u, s, b) ==
    /\ s \in screens
    /\ u \in Members(s.chat)
    /\ b \in Keyboard(s)

\* date(year, month, day) of the callback data
Selected(b) == <<b.y, b.m, b.d>>

\* a faulty PrevDate, which goes forward: C6 is tested against it
PrevDateForward(b) == AddMonths(<<b.y, b.m, 1>>, 1)

\* data[1] == "prev": new_date = date(year, month, 1) - relativedelta(months=1)
PrevDate(b) == AddMonths(<<b.y, b.m, 1>>, -1)

\* data[1] == "next": new_date = date(year, month, 1) + relativedelta(months=1)
NextDate(b) == AddMonths(<<b.y, b.m, 1>>, 1)

\* data[1] == "prev": the calendar of the month before is sent in the mode of
\* the callback data, and the tapped message deleted
NavigatePrev(u, s, b) ==
    /\ Tap(u, s, b)
    /\ b.k = "prev"
    /\ screens' = (screens \cup {CalendarMsg(s.chat, PrevDate(b), b.mode)}) \ {s}
    /\ last_out' = "calendar"
    /\ report' = NoReport
    /\ UNCHANGED <<user_selections, calls, ledger, picked>>
    /\ UNCHANGED entryVars

\* data[1] == "next"
NavigateNext(u, s, b) ==
    /\ Tap(u, s, b)
    /\ b.k = "next"
    /\ screens' = (screens \cup {CalendarMsg(s.chat, NextDate(b), b.mode)}) \ {s}
    /\ last_out' = "calendar"
    /\ report' = NoReport
    /\ UNCHANGED <<user_selections, calls, ledger, picked>>
    /\ UNCHANGED entryVars

\* data[1] == "day", mode == "start": the entry of the chat is written, the
\* start calendar deleted and the end calendar of the picked month sent
StartPick(u, s, b) ==
    /\ Tap(u, s, b)
    /\ b.k = "day"
    /\ b.mode = "start"
    /\ user_selections' = [user_selections EXCEPT ![s.chat] = Selected(b)]
    /\ picked' = [picked EXCEPT ![u][s.chat] = Selected(b)]
    /\ screens' = (screens \ {s}) \cup {CalendarMsg(s.chat, Selected(b), "end")}
    /\ last_out' = "calendar"
    /\ report' = NoReport
    /\ UNCHANGED <<calls, ledger>>
    /\ UNCHANGED entryVars

\* a faulty EndNoStart, which answers with the alert of the other branch and
\* leaves the calendar: C5 is tested against it
EndNoStartAsAlert(u, s, b) ==
    /\ Tap(u, s, b)
    /\ b.k = "day"
    /\ b.mode = "end"
    /\ user_selections[s.chat] = NoDate
    /\ last_out' = "end_before_start_alert"
    /\ report' = NoReport
    /\ UNCHANGED <<user_selections, screens, calls, ledger, picked>>
    /\ UNCHANGED entryVars

\* data[1] == "day", mode == "end", chat_id not in user_selections: the
\* calendar message is replaced by the error text
EndNoStart(u, s, b) ==
    /\ Tap(u, s, b)
    /\ b.k = "day"
    /\ b.mode = "end"
    /\ user_selections[s.chat] = NoDate
    /\ screens' = screens \ {s}
    /\ last_out' = "no_start_error"
    /\ report' = NoReport
    /\ UNCHANGED <<user_selections, calls, ledger, picked>>
    /\ UNCHANGED entryVars

\* ... selected < start: the alert, and nothing else
EndReject(u, s, b) ==
    /\ Tap(u, s, b)
    /\ b.k = "day"
    /\ b.mode = "end"
    /\ user_selections[s.chat] # NoDate
    /\ DateLT(Selected(b), user_selections[s.chat])
    /\ last_out' = "end_before_start_alert"
    /\ report' = NoReport
    /\ UNCHANGED <<user_selections, screens, calls, ledger, picked>>
    /\ UNCHANGED entryVars

\* the frame of generate_report_for_period(chat_id, start_date, end_date),
\* entered from branch k of the handler of u's tap, up to its first await
ReportCall(u, chat_id, k, start_date, end_date) ==
    [from |-> u, chat |-> chat_id, k |-> k, start |-> start_date, end |-> end_date]

\* ... otherwise generate_report_for_period(chat_id, start, selected) is
\* entered and suspends
EndAccept(u, s, b) ==
    /\ Tap(u, s, b)
    /\ Len(calls) < MaxCalls
    /\ b.k = "day"
    /\ b.mode = "end"
    /\ user_selections[s.chat] # NoDate
    /\ ~DateLT(Selected(b), user_selections[s.chat])
    /\ calls' = Append(calls,
          ReportCall(u, s.chat, "day", user_selections[s.chat], Selected(b)))
    /\ UNCHANGED <<user_selections, screens, ledger, last_out, picked, report>>
    /\ UNCHANGED entryVars

\* a faulty SinglePick, which drops the live selection of the chat: C20 is
\* tested against it
SinglePickDropsSelection(u, s, b) ==
    /\ Tap(u, s, b)
    /\ Len(calls) < MaxCalls
    /\ b.k = "single"
    /\ calls' = Append(calls,
          ReportCall(u, s.chat, "single", Selected(b), Selected(b)))
    /\ user_selections' = [user_selections EXCEPT ![s.chat] = NoDate]
    /\ UNCHANGED <<screens, ledger, last_out, picked, report>>
    /\ UNCHANGED entryVars

\* data[1] == "single": generate_report_for_period(chat_id, selected, selected)
SinglePick(u, s, b) ==
    /\ Tap(u, s, b)
    /\ Len(calls) < MaxCalls
    /\ b.k = "single"
    /\ calls' = Append(calls,
          ReportCall(u, s.chat, "single", Selected(b), Selected(b)))
    /\ UNCHANGED <<user_selections, screens, ledger, last_out, picked, report>>
    /\ UNCHANGED entryVars

\* the entry handle_calendar removes once its report has returned:
\* user_selections.pop(chat_id, None)
Pop(sel, chat_id) == [sel EXCEPT ![chat_id] = NoDate]

Remove(seq, i) == SubSeq(seq, 1, i - 1) \o SubSeq(seq, i + 1, Len(seq))

\* generate_report_for_period resumes: the query with chat_id as the owner,
\* then the notice, or the text and the chart; back in handle_calendar, an end
\* pick then pops the entry of its chat
ReportReturn(i) ==
    /\ i \in 1..Len(calls)
    /\ GenerateReportForPeriod(calls[i].chat, calls[i].start, calls[i].end)
    /\ IF calls[i].k = "day"
       THEN /\ user_selections' = Pop(user_selections, calls[i].chat)
            /\ picked' = [picked EXCEPT ![calls[i].from][calls[i].chat] = NoDate]
       ELSE UNCHANGED <<user_selections, picked>>
    /\ calls' = Remove(calls, i)
    /\ UNCHANGED <<screens, ledger>>
    /\ UNCHANGED entryVars

\* choose_period_start: the start calendar of the current date
ChoosePeriodStart(c, now) ==
    /\ Cardinality(screens) < MaxScreens
    /\ screens' = screens \cup {CalendarMsg(c, now, "start")}
    /\ last_out' = "calendar"
    /\ report' = NoReport
    /\ UNCHANGED <<user_selections, calls, ledger, picked>>
    /\ UNCHANGED entryVars

\* generate_report_for_period raises at its connection or its query: the
\* exception leaves handle_calendar before the pop of line 319, and no
\* message is sent
ReportRaises(i) ==
    /\ i \in 1..Len(calls)
    /\ last_out' = "unanswered"
    /\ report' = NoReport
    /\ calls' = Remove(calls, i)
    /\ UNCHANGED <<user_selections, screens, ledger, picked>>
    /\ UNCHANGED entryVars

\* handle_calendar reaches a call of generate_report_for_period (line 318, or
\* line 324 when k is "single") with these arguments, whatever calendars led
\* there; the entry of an end pick may be gone by then, popped by an earlier
\* handler of the same pick
EnterReport(u, chat_id, k, start_date, end_date) ==
    /\ calls = <<>>
    /\ u \in Members(chat_id)
    /\ ~DateLT(end_date, start_date)
    /\ k = "single" => start_date = end_date
    /\ calls' = <<ReportCall(u, chat_id, k, start_date, end_date)>>
    /\ UNCHANGED <<user_selections, screens, ledger, last_out, picked, report>>
    /\ UNCHANGED entryVars

(***************************************************************************)
(* show_month_stats and show_all_stats.                                    *)
(***************************************************************************)
\* the answer of either handler to the rows of its query: the notice when
\* there is none, else the lines and their total, without a chart
StatsAnswer(kind, rows) ==
    IF rows = <<>>
    THEN /\ last_out' = "no_stats"
         /\ report' = NoReport
    ELSE \E lines \in Sorted(Groups(rows)) :
            /\ last_out' = "stats"
            /\ report' = ReportOf(kind, lines, FALSE)

\* show_month_stats(message), message.from_user.id = u, on the day now
ShowMonthStats(u, now) ==
    /\ StatsAnswer("month", QueryMonth(u, now))
    /\ UNCHANGED <<user_selections, screens, calls, ledger, picked>>
    /\ UNCHANGED entryVars

\* show_all_stats(message), message.from_user.id = u
ShowAllStats(u) ==
    /\ StatsAnswer("all", QueryAll(u))
    /\ UNCHANGED <<user_selections, screens, calls, ledger, picked>>
    /\ UNCHANGED entryVars

(***************************************************************************)
(* handle_expense.                                                         *)
(***************************************************************************)
\* the rows the loop inserts, in its order
RECURSIVE StoredRows(_, _, _)
StoredRows(outs, user_id, today) ==
    IF outs = <<>> THEN <<>>
    ELSE IF Head(outs).kind = "stored"
         THEN <<[user_id |-> user_id, category |-> Head(outs).category,
                 amount |-> Head(outs).amount, created |-> today]>>
              \o StoredRows(Tail(outs), user_id, today)
         ELSE StoredRows(Tail(outs), user_id, today)

\* the list errors: the entry as entered, and which of the two messages
RECURSIVE ErrorList(_)
ErrorList(outs) ==
    IF outs = <<>> THEN <<>>
    ELSE IF Head(outs).kind = "stored" THEN ErrorList(Tail(outs))
         ELSE <<[text |-> Head(outs).text, reason |-> Head(outs).kind]>>
              \o ErrorList(Tail(outs))

\* the answer of handle_expense to a text: none when the text is blank, the
\* "empty message" hint when no entry is left, else the count and the errors
Answer(text) ==
    IF Strip(text) = <<>>
    THEN [kind |-> "none", success_count |-> 0, errors |-> <<>>]
    ELSE IF Entries(Strip(text)) = <<>>
    THEN [kind |-> "empty_message", success_count |-> 0, errors |-> <<>>]
    ELSE LET outs == Outcomes(Entries(Strip(text)))
         IN  [kind |-> "result",
              success_count |-> Len(StoredRows(outs, 0, NoDate)),
              errors |-> ErrorList(outs)]

\* handle_expense(message), message.text = text, message.from_user.id = u, on
\* the day today (created_at defaults to the current timestamp): every entry
\* is parsed, the rows are inserted and committed, the answer sent
HandleExpense(u, text, today) ==
    /\ msg' = [from |-> u, text |-> text]
    /\ reply' = Answer(text)
    /\ ledger' = ledger \o StoredRows(Outcomes(Entries(Strip(text))), u, today)

\* the pieces a user types a text from
Fragments ==
    {<<"0">>, <<"1">>, <<"9">>, <<".">>, <<".", "0", "0">>, <<" ">>, <<"a">>, <<"er">>,
     <<",">>, <<"\n">>, <<"1", " ", "a">>}

RECURSIVE Flatten(_)
Flatten(fs) == IF fs = <<>> THEN <<>> ELSE Head(fs) \o Flatten(Tail(fs))

NoMsg == [from |-> 0, text |-> <<>>]
NoTx == [from |-> 0, today |-> NoDate, todo |-> <<>>, rows |-> <<>>, errors |-> <<>>]
NoReply == [kind |-> "unsent", success_count |-> 0, errors |-> <<>>]

\* a user types one more piece of the first text
TypeFragment(f) ==
    /\ msg = NoMsg
    /\ Len(draft) < MaxFragments
    /\ draft' = Append(draft, f)
    /\ UNCHANGED <<user_selections, screens, calls, ledger, last_out, picked, msg, reply,
                   report, tx>>

\* the user sends the text typed
Submit(u, today) ==
    /\ msg = NoMsg
    /\ HandleExpense(u, Flatten(draft), today)
    /\ draft' = <<>>
    /\ UNCHANGED <<user_selections, screens, calls, last_out, picked, report, tx>>

(***************************************************************************)
(* handle_expense, step by step: the connection of line 244 is a           *)
(* transaction of its own, every await is a point where another handler    *)
(* runs, and a statement of the database may raise.                        *)
(***************************************************************************)
\* the answer that never comes: the exception left the handler
Unanswered == [kind |-> "unanswered", success_count |-> 0, errors |-> <<>>]

\* handle_expense up to its connection: the early returns of lines 230-238
\* answer at once, else the loop starts on the entries with nothing inserted
BeginExpense(u, today) ==
    /\ msg = NoMsg
    /\ tx = NoTx
    /\ LET text == Flatten(draft)
       IN  /\ msg' = [from |-> u, text |-> text]
           /\ IF Strip(text) = <<>> \/ Entries(Strip(text)) = <<>>
              THEN /\ reply' = Answer(text)
                   /\ tx' = NoTx
              ELSE /\ reply' = reply
                   /\ tx' = [from |-> u, today |-> today, todo |-> Entries(Strip(text)),
                             rows |-> <<>>, errors |-> <<>>]
    /\ draft' = <<>>
    /\ UNCHANGED <<user_selections, screens, calls, ledger, last_out, picked, report>>

\* aiosqlite.connect raises (line 244): nothing is caught, nothing answered
ConnectFails(u, today) ==
    /\ msg = NoMsg
    /\ tx = NoTx
    /\ Entries(Strip(Flatten(draft))) # <<>>
    /\ msg' = [from |-> u, text |-> Flatten(draft)]
    /\ reply' = Unanswered
    /\ draft' = <<>>
    /\ UNCHANGED <<user_selections, screens, calls, ledger, last_out, picked, report, tx>>

\* one turn of the loop (lines 245-267) with the database at work: the row
\* of a stored entry is inserted in the open transaction, not yet committed
ExpenseStep ==
    /\ tx.from # 0
    /\ tx.todo # <<>>
    /\ LET o == ParseEntry(Head(tx.todo))
       IN  tx' = [tx EXCEPT
                    !.todo = Tail(@),
                    !.rows = @ \o StoredRows(<<o>>, tx.from, tx.today),
                    !.errors = @ \o ErrorList(<<o>>)]
    /\ UNCHANGED <<user_selections, screens, calls, ledger, last_out, picked, report,
                   draft, msg, reply>>

\* one turn of the loop where the INSERT of lines 261-264 raises: the except
\* clause of line 266 catches it as it catches a bad amount, and the loop
\* goes on
InsertFails ==
    /\ tx.from # 0
    /\ tx.todo # <<>>
    /\ ParseEntry(Head(tx.todo)).kind = "stored"
    /\ tx' = [tx EXCEPT
                !.todo = Tail(@),
                !.errors = Append(@, [text |-> Head(tx.todo), reason |-> "bad_amount"])]
    /\ UNCHANGED <<user_selections, screens, calls, ledger, last_out, picked, report,
                   draft, msg, reply>>

\* db.commit() (line 269) and the answer (lines 271-280): the rows inserted
\* become visible to every other connection at once
CommitExpense ==
    /\ tx.from # 0
    /\ tx.todo = <<>>
    /\ ledger' = ledger \o tx.rows
    /\ reply' = [kind |-> "result", success_count |-> Len(tx.rows), errors |-> tx.errors]
    /\ tx' = NoTx
    /\ UNCHANGED <<user_selections, screens, calls, last_out, picked, report, draft, msg>>

\* db.commit() raises: the connection closes without a commit, the exception
\* leaves the handler and no answer is sent
CommitFails ==
    /\ tx.from # 0
    /\ tx.todo = <<>>
    /\ reply' = Unanswered
    /\ tx' = NoTx
    /\ UNCHANGED <<user_selections, screens, calls, ledger, last_out, picked, report,
                   draft, msg>>

\* show_all_stats raises at its connection or its query (lines 196-204):
\* nothing is caught, nothing answered
StatsRaises(u) ==
    /\ last_out' = "unanswered"
    /\ report' = NoReport
    /\ UNCHANGED <<user_selections, screens, calls, ledger, picked>>
    /\ UNCHANGED entryVars

\* a row committed by an earlier message
InitLedgers ==
    {<<[user_id |-> 1, category |-> <<"a">>, amount |-> 100,
        created |-> <<FirstAnchor[1], FirstAnchor[2], 1>>]>>}

Init ==
    /\ user_selections = [c \in Chats |-> NoDate]
    /\ screens = {}
    /\ calls = <<>>
    /\ ledger \in InitLedgers
    /\ last_out = "none"
    /\ picked = [u \in Users |-> [c \in Chats |-> NoDate]]
    /\ draft = <<>>
    /\ msg = NoMsg
    /\ reply = NoReply
    /\ report = NoReport
    /\ tx = NoTx

\* handle_calendar on the callback of u's tap on button b of calendar s
HandleCalendar(u, s, b) ==
    \/ NavigatePrev(u, s, b)
    \/ NavigateNext(u, s, b)
    \/ StartPick(u, s, b)
    \/ EndNoStart(u, s, b)
    \/ EndReject(u, s, b)
    \/ EndAccept(u, s, b)
    \/ SinglePick(u, s, b)

\* the navigation stays within the months of the window
PrevInWindow(b) == InWindow(PrevDate(b)[1], PrevDate(b)[2])
NextInWindow(b) == InWindow(NextDate(b)[1], NextDate(b)[2])

Next ==
    \/ \E c \in Chats, now \in Dates : ChoosePeriodStart(c, now)
    \/ \E s \in screens : \E b \in Keyboard(s), u \in Members(s.chat) :
          PrevInWindow(b) /\ NavigatePrev(u, s, b)
    \/ \E s \in screens : \E b \in Keyboard(s), u \in Members(s.chat) :
          NextInWindow(b) /\ NavigateNext(u, s, b)
    \/ \E s \in screens : \E b \in Keyboard(s), u \in Members(s.chat) :
          StartPick(u, s, b)
    \/ \E s \in screens : \E b \in Keyboard(s), u \in Members(s.chat) :
          EndNoStart(u, s, b)
    \/ \E s \in screens : \E b \in Keyboard(s), u \in Members(s.chat) :
          EndReject(u, s, b)
    \/ \E s \in screens : \E b \in Keyboard(s), u \in Members(s.chat) :
          EndAccept(u, s, b)
    \/ \E s \in screens : \E b \in Keyboard(s), u \in Members(s.chat) :
          SinglePick(u, s, b)
    \/ \E i \in 1..MaxCalls : ReportReturn(i)

Spec == Init /\ [][Next]_vars

\* the days on which the text is sent
EntryDays == {<<FirstAnchor[1], FirstAnchor[2], 1>>}

\* the first text message alone
NextEntry ==
    \/ \E f \in Fragments : TypeFragment(f)
    \/ \E u \in Users, today \in EntryDays : Submit(u, today)

SpecEntry == Init /\ [][NextEntry]_vars

\* the pieces of one line: a sign, amounts with either decimal separator, the
\* marker in capitals, labels in small and capital letters
LineFragments ==
    {<<"-">>, <<"1">>, <<"9">>, <<",">>, <<".">>, <<" ">>, <<"A">>, <<"ER">>,
     <<"1", " ", "a">>, <<"\n">>}

\* the first text message alone, typed from the pieces of one line
NextLine ==
    \/ \E f \in LineFragments : TypeFragment(f)
    \/ \E u \in Users, today \in EntryDays : Submit(u, today)

SpecLine == Init /\ [][NextLine]_vars

\* the pieces of a text of several entries, good and bad
TxFragments == {<<"1", " ", "a">>, <<"9", " ", "be">>, <<"0", " ", "a">>, <<"\n">>}

\* the first text message step by step, with the all-time statistics of its
\* sender asked for at any moment
NextTx ==
    \/ \E f \in TxFragments : TypeFragment(f)
    \/ \E today \in EntryDays : BeginExpense(1, today)
    \/ \E today \in EntryDays : ConnectFails(1, today)
    \/ ExpenseStep
    \/ InsertFails
    \/ CommitExpense
    \/ CommitFails
    \/ ShowAllStats(1)
    \/ StatsRaises(1)

SpecTx == Init /\ [][NextTx]_vars

\* the text of the message sent between the taps
FrameFragments == {<<"1", " ", "a">>}

\* every handler of the bot: the calendars with one report at a time, one
\* text message, and the statistics of the month and of all time
NextFrame ==
    \/ \E c \in Chats, now \in Dates : ChoosePeriodStart(c, now)
    \/ \E s \in screens : \E b \in Keyboard(s), u \in Members(s.chat) :
          PrevInWindow(b) /\ NavigatePrev(u, s, b)
    \/ \E s \in screens : \E b \in Keyboard(s), u \in Members(s.chat) :
          NextInWindow(b) /\ NavigateNext(u, s, b)
    \/ \E s \in screens : \E b \in Keyboard(s), u \in Members(s.chat) :
          StartPick(u, s, b)
    \/ \E s \in screens : \E b \in Keyboard(s), u \in Members(s.chat) :
          EndNoStart(u, s, b)
    \/ \E s \in screens : \E b \in Keyboard(s), u \in Members(s.chat) :
          EndReject(u, s, b)
    \/ \E s \in screens : \E b \in Keyboard(s), u \in Members(s.chat) :
          calls = <<>> /\ EndAccept(u, s, b)
    \/ \E s \in screens : \E b \in Keyboard(s), u \in Members(s.chat) :
          calls = <<>> /\ SinglePick(u, s, b)
    \/ \E i \in 1..MaxCalls : ReportReturn(i)
    \/ \E f \in FrameFragments : draft = <<>> /\ TypeFragment(f)
    \/ \E u \in Users, today \in EntryDays : draft # <<>> /\ Submit(u, today)
    \/ \E u \in Users, now \in Dates : ShowMonthStats(u, now)
    \/ \E u \in Users : ShowAllStats(u)

\* the selections left behind by calendars that are no longer tracked: the
\* end calendar of a start pick of user 1 was abandoned, in either chat or both
AbandonedSelections ==
    [Chats -> {NoDate, <<FirstAnchor[1], FirstAnchor[2], MaxDay>>}]

InitFrame ==
    /\ user_selections \in AbandonedSelections
    /\ screens = {}
    /\ calls = <<>>
    /\ ledger \in InitLedgers
    /\ last_out = "none"
    /\ picked = [u \in Users |-> [c \in Chats |->
                    IF u = 1 THEN user_selections[c] ELSE NoDate]]
    /\ draft = <<>>
    /\ msg = NoMsg
    /\ reply = NoReply
    /\ report = NoReport
    /\ tx = NoTx

SpecFrame == InitFrame /\ [][NextFrame]_vars

\* the rows a ledger is drawn from: of either user, on either of two days
ReportRows ==
    [user_id : Users, category : {<<"a">>, <<"be">>, <<"u">>}, amount : {100, 200},
     created : {<<FirstAnchor[1], FirstAnchor[2], 1>>, <<FirstAnchor[1], FirstAnchor[2], 2>>}]

\* the ledgers of at most MaxRows rows, created_at never falling
ReportLedgers ==
    {l \in UNION {[1..n -> ReportRows] : n \in 0..MaxRows} :
        \A i \in 1..(Len(l) - 1) : ~DateLT(l[i + 1].created, l[i].created)}

InitReport ==
    /\ user_selections = [c \in Chats |-> NoDate]
    /\ screens = {}
    /\ calls = <<>>
    /\ ledger \in ReportLedgers
    /\ last_out = "none"
    /\ picked = [u \in Users |-> [c \in Chats |-> NoDate]]
    /\ draft = <<>>
    /\ msg = NoMsg
    /\ reply = NoReply
    /\ report = NoReport
    /\ tx = NoTx

\* the first report alone, over every ledger of ReportLedgers
NextReport ==
    \/ \E u \in Users, c \in Chats, k \in {"day", "single"}, sd \in Dates, ed \in Dates :
          last_out = "none" /\ EnterReport(u, c, k, sd, ed)
    \/ \E i \in 1..MaxCalls : ReportReturn(i)
    \/ \E i \in 1..MaxCalls : ReportRaises(i)
    \/ \E u \in Users, now \in Dates :
          last_out = "none" /\ calls = <<>> /\ ShowMonthStats(u, now)
    \/ \E u \in Users : last_out = "none" /\ calls = <<>> /\ ShowAllStats(u)

SpecReport == InitReport /\ [][NextReport]_vars

\* the calendars alone, over the months from NavSpan before FirstAnchor to
\* NavSpan after it
InNavWindow(dt) ==
    /\ MonthIndex(dt[1], dt[2]) >= MonthIndex(FirstAnchor[1], FirstAnchor[2]) - NavSpan
    /\ MonthIndex(dt[1], dt[2]) <= MonthIndex(FirstAnchor[1], FirstAnchor[2]) + NavSpan

NextNav ==
    \/ \E c \in Chats, now \in Dates : ChoosePeriodStart(c, now)
    \/ \E s \in screens : \E b \in Keyboard(s), u \in Members(s.chat) :
          InNavWindow(PrevDate(b)) /\ NavigatePrev(u, s, b)
    \/ \E s \in screens : \E b \in Keyboard(s), u \in Members(s.chat) :
          InNavWindow(NextDate(b)) /\ NavigateNext(u, s, b)

SpecNav == Init /\ [][NextNav]_vars

(***************************************************************************)
(* The claims.                                                             *)
(***************************************************************************)
\* the days of a date, counted so that a later date has the larger number
DayNumber(dt) == (dt[1] * 12 + dt[2]) * 31 + dt[3]

\* the frame a report is entered with
Frame(u, chat_id, k, start_date, end_date) ==
    [from |-> u, chat |-> chat_id, k |-> k, start |-> start_date, end |-> end_date]

\* C1: whenever handle_calendar handles an end-mode day pick in a chat whose
\* entry holds the start date S, a picked date E < S leaves the map and the
\* reports in flight as they are and raises the "end before start" alert,
\* and E = S enters the report of the single-day range [S, S].
C1_EndBeforeStartRejected ==
    [][\A s \in screens : \A b \in Keyboard(s), u \in Members(s.chat) :
         (/\ b.k = "day"
          /\ b.mode = "end"
          /\ user_selections[s.chat] # NoDate
          /\ HandleCalendar(u, s, b))
         => LET S == user_selections[s.chat]
                E == <<b.y, b.m, b.d>>
            IN  /\ DayNumber(E) < DayNumber(S) =>
                      /\ user_selections' = user_selections
                      /\ calls' = calls
                      /\ last_out' = "end_before_start_alert"
                /\ E = S =>
                      /\ calls' = Append(calls, Frame(u, s.chat, "day", S, S))
                      /\ user_selections' = user_selections]_vars

\* an end pick before the start date has been rejected, the entry still live
C1_Witness ==
    /\ last_out = "end_before_start_alert"
    /\ \E c \in Chats : user_selections[c] # NoDate

\* C2: an end-mode day pick of user u with E >= start enters exactly one
\* report, for the range from the date of u's own latest start-mode day pick
\* in that chat to E; and when the handler of an end pick returns, the chat
\* has no entry.
C2_EndPickReportsOwnRange ==
    /\ [][\A s \in screens : \A b \in Keyboard(s), u \in Members(s.chat) :
            (/\ b.k = "day"
             /\ b.mode = "end"
             /\ user_selections[s.chat] # NoDate
             /\ DayNumber(<<b.y, b.m, b.d>>) >= DayNumber(user_selections[s.chat])
             /\ HandleCalendar(u, s, b))
            => calls' = Append(calls,
                  Frame(u, s.chat, "day", picked[u][s.chat], <<b.y, b.m, b.d>>))]_vars
    /\ [][\A i \in 1..Len(calls) :
            (ReportReturn(i) /\ calls[i].k = "day")
            => user_selections'[calls[i].chat] = NoDate]_vars

\* C3: two calendar actions of one user come out as if handled one after the
\* other. In a private chat, where every action is of one user: an end pick
\* is accepted only when no earlier end pick of the chat is still suspended in
\* its report (handled after it, it would meet no entry and report the error),
\* and the entry a returning end pick removes is the one it read (handled
\* alone, it removes no later start pick and none removed before).
C3_SameUserActionsSerial ==
    /\ [][\A s \in screens : \A b \in Keyboard(s), u \in Members(s.chat) :
            (EndAccept(u, s, b) /\ s.chat \in PrivateChats)
            => \A i \in 1..Len(calls) :
                  ~(calls[i].k = "day" /\ calls[i].chat = s.chat)]_vars
    /\ [][\A i \in 1..Len(calls) :
            (ReportReturn(i) /\ calls[i].k = "day" /\ calls[i].chat \in PrivateChats)
            => user_selections[calls[i].chat] = calls[i].start]_vars

\* C4: the selection of a user is kept under that user alone: as long as the
\* start date a user picked in a chat is not consumed by an end pick of that
\* user, the entry the user's actions in that chat read holds that date; and
\* the start date an end pick reads is the one the same user picked.
C4_SelectionsPerUser ==
    /\ [](\A u \in Users : \A c \in Chats :
            (u \in Members(c) /\ picked[u][c] # NoDate)
            => user_selections[c] = picked[u][c])
    /\ [][\A s \in screens : \A b \in Keyboard(s), u \in Members(s.chat) :
            (EndAccept(u, s, b) \/ EndReject(u, s, b))
            => user_selections[s.chat] = picked[u][s.chat]]_vars

\* C5, as claimed: every navigation and every day pick handled while the chat
\* of the action has no entry reports the "no start date" error, displays no
\* calendar, creates no entry and enters no report.
C5_AnyActionWithoutStart ==
    [][\A s \in screens : \A b \in Keyboard(s), u \in Members(s.chat) :
         (/\ b.k \in {"prev", "next", "day"}
          /\ user_selections[s.chat] = NoDate
          /\ HandleCalendar(u, s, b))
         => /\ last_out' = "no_start_error"
            /\ screens' \subseteq screens
            /\ user_selections' = user_selections
            /\ calls' = calls]_vars

\* C5, amended: every END-MODE DAY PICK handled while the chat of the action
\* has no entry reports the "no start date" error, displays no calendar,
\* creates no entry and enters no report; a navigation handled then displays
\* the calendar of the neighbouring month as ever, and a start-mode day pick
\* writes the entry.
C5_EndPickWithoutStart ==
    [][\A s \in screens : \A b \in Keyboard(s), u \in Members(s.chat) :
         (user_selections[s.chat] = NoDate /\ HandleCalendar(u, s, b))
         => /\ (b.k = "day" /\ b.mode = "end") =>
                  /\ last_out' = "no_start_error"
                  /\ screens' \subseteq screens
                  /\ user_selections' = user_selections
                  /\ calls' = calls
            /\ b.k \in {"prev", "next"} =>
                  /\ last_out' = "calendar"
                  /\ \E n \in screens' : n.chat = s.chat /\ n.mode = s.mode
                  /\ user_selections' = user_selections
            /\ (b.k = "day" /\ b.mode = "start") =>
                  user_selections'[s.chat] = <<b.y, b.m, b.d>>]_vars

\* an end pick has met a chat without an entry
C5_Witness ==
    /\ last_out = "no_start_error"
    /\ \A c \in Chats : user_selections[c] = NoDate

\* C6: a navigation replaces the tapped calendar by the calendar of the month
\* right before (prev) or right after (next) it, in the same chat and mode,
\* and leaves the map, the reports in flight and the ledger as they are.
C6_NavigationShiftsOneMonth ==
    [][\A s \in screens : \A b \in Keyboard(s), u \in Members(s.chat) :
         (b.k \in {"prev", "next"} /\ HandleCalendar(u, s, b))
         => /\ \E n \in screens' :
                  /\ screens' = (screens \ {s}) \cup {n}
                  /\ n.chat = s.chat
                  /\ n.mode = s.mode
                  /\ MonthIndex(n.y, n.m) =
                        MonthIndex(s.y, s.m) + (IF b.k = "prev" THEN -1 ELSE 1)
            /\ user_selections' = user_selections
            /\ calls' = calls
            /\ ledger' = ledger]_vars

\* an end calendar stands at another month than the start date of its chat:
\* the user has navigated in end mode, the entry live
C6_Witness ==
    \E s \in screens :
        /\ s.mode = "end"
        /\ user_selections[s.chat] # NoDate
        /\ <<s.y, s.m>> # <<user_selections[s.chat][1], user_selections[s.chat][2]>>

\* the anchor a tap on the button k of calendar n leads to
Leads(n, k) ==
    IF k = "prev" THEN <<PrevDate(Button("prev", n.y, n.m, 0, n.mode))[1],
                         PrevDate(Button("prev", n.y, n.m, 0, n.mode))[2]>>
    ELSE <<NextDate(Button("next", n.y, n.m, 0, n.mode))[1],
           NextDate(Button("next", n.y, n.m, 0, n.mode))[2]>>

\* C7: from the calendar that NavigatePrev displays, NavigateNext leads back
\* to the anchor navigated from, and the other way round; prev of a January
\* displays December of the year before, next of a December January of the
\* year after.
C7_PrevNextRoundTrip ==
    [][\A s \in screens : \A b \in Keyboard(s), u \in Members(s.chat) :
         (b.k \in {"prev", "next"} /\ HandleCalendar(u, s, b))
         => \A n \in screens' \ screens :
               /\ Leads(n, IF b.k = "prev" THEN "next" ELSE "prev") = <<s.y, s.m>>
               /\ (b.k = "prev" /\ s.m = 1) => <<n.y, n.m>> = <<s.y - 1, 12>>
               /\ (b.k = "next" /\ s.m = 12) => <<n.y, n.m>> = <<s.y + 1, 1>>]_vars

\* the December of the year before the first calendars is displayed: prev has
\* crossed a January
C7_Witness == \E s \in screens : s.y = FirstAnchor[1] - 1 /\ s.m = 12

\* C8: a single-day confirmation enters the report of the range [day, day]
\* and writes no entry, neither then nor when its report returns; and no
\* end-mode calendar carries the "only this day" button.
C8_SingleDayConfirmed ==
    /\ [][\A s \in screens : \A b \in Keyboard(s), u \in Members(s.chat) :
            (b.k = "single" /\ HandleCalendar(u, s, b))
            => /\ calls' = Append(calls,
                     Frame(u, s.chat, "single", <<b.y, b.m, b.d>>, <<b.y, b.m, b.d>>))
               /\ user_selections' = user_selections]_vars
    /\ [][\A i \in 1..Len(calls) :
            (ReportReturn(i) /\ calls[i].k = "single")
            => user_selections' = user_selections]_vars
    /\ [](\A s \in screens : \A b \in Keyboard(s) : b.k = "single" => s.mode = "start")

\* the report of a single-day confirmation is in flight, beside an end calendar
C8_Witness ==
    /\ \E i \in 1..Len(calls) : calls[i].k = "single" /\ calls[i].start = calls[i].end
    /\ \E s \in screens : s.mode = "end"

\* the characters at which an entry that is not blank starts: no separator and
\* no white space, with nothing but white space back to the separator before
SegmentStarts(t) ==
    {i \in 1..Len(t) :
        /\ t[i] \notin SepChars \cup SpaceChars
        /\ \A j \in 1..(i - 1) :
              (\A k \in j..(i - 1) : t[k] \notin SepChars) => t[j] \in SpaceChars}

\* the entry that starts at i: up to its last character that is no white space
SegmentAt(t, i) ==
    LET ends == {e \in i..Len(t) :
                    /\ \A k \in i..e : t[k] \notin SepChars
                    /\ t[e] \notin SpaceChars}
    IN  SubSeq(t, i, CHOOSE e \in ends : \A x \in ends : x <= e)

\* C9: the count of successes and the count of errors of an answer add up to
\* the number of entries of the text that are not blank; the errors are the
\* texts of entries at rising places; and each success is one more row.
C9_OneOutcomePerSegment ==
    /\ [](msg # NoMsg =>
            /\ reply.success_count + Len(reply.errors)
                  = Cardinality(SegmentStarts(msg.text))
            /\ \E f \in [1..Len(reply.errors) -> SegmentStarts(msg.text)] :
                  /\ \A k \in 1..Len(reply.errors) :
                        reply.errors[k].text = SegmentAt(msg.text, f[k])
                  /\ \A k \in 1..Len(reply.errors) : \A l \in 1..Len(reply.errors) :
                        k < l => f[k] < f[l])
    /\ [][msg' # msg => Len(ledger') = Len(ledger) + reply'.success_count]_vars

\* a text with an entry stored, an entry in error and a blank piece is answered
C9_Witness ==
    /\ msg # NoMsg
    /\ reply.success_count >= 1
    /\ Len(reply.errors) >= 1
    /\ Len(Split(Strip(msg.text))) > reply.success_count + Len(reply.errors)

\* C10: every row of the ledger has an amount above zero, in hundredths.
C10_StoredAmountsPositive == \A i \in 1..Len(ledger) : ledger[i].amount > 0

\* the entries of a text, as handle_expense loops over them
EntriesOf(t) == Entries(Strip(t))

\* an entry that is a line the bot stores, with a minus sign put before it
NegativeLine(e) == Len(e) >= 2 /\ e[1] = "-" /\ ParseEntry(Tail(e)).kind = "stored"

\* how often the answer reports the entry e with the reason r
Reported(e, r) ==
    Cardinality({k \in 1..Len(reply.errors) :
                    reply.errors[k].text = e /\ reply.errors[k].reason = r})

\* how often e is an entry of the text t
Entered(t, e) == Cardinality({i \in 1..Len(EntriesOf(t)) : EntriesOf(t)[i] = e})

\* C11, as claimed: every entry with a negative amount is reported once, with
\* the reason "bad amount" and not "bad format", and no row is committed for it.
C11_NegativeIsBadAmount ==
    /\ [](msg # NoMsg =>
            \A i \in 1..Len(EntriesOf(msg.text)) :
               LET e == EntriesOf(msg.text)[i]
               IN  NegativeLine(e) =>
                      /\ Reported(e, "bad_amount") = Entered(msg.text, e)
                      /\ Reported(e, "bad_format") = 0)
    /\ [][(msg' # msg /\ \A i \in 1..Len(EntriesOf(msg'.text)) :
                            NegativeLine(EntriesOf(msg'.text)[i]))
          => ledger' = ledger]_vars

\* C11, amended: every entry with a negative amount is reported once, with the
\* reason "BAD FORMAT" (the minus sign is no character of an amount), and no
\* row is committed for it.
C11_NegativeIsBadFormat ==
    /\ [](msg # NoMsg =>
            \A i \in 1..Len(EntriesOf(msg.text)) :
               LET e == EntriesOf(msg.text)[i]
               IN  NegativeLine(e) =>
                      /\ Reported(e, "bad_format") = Entered(msg.text, e)
                      /\ Reported(e, "bad_amount") = 0)
    /\ [][(msg' # msg /\ \A i \in 1..Len(EntriesOf(msg'.text)) :
                            NegativeLine(EntriesOf(msg'.text)[i]))
          => ledger' = ledger]_vars

\* the text "-1 a" has been answered
C11_Witness ==
    /\ msg # NoMsg
    /\ EntriesOf(msg.text) = << <<"-", "1", " ", "a">> >>
    /\ Len(reply.errors) = 1

\* t with its commas written as dots
Dotted(t) == [i \in 1..Len(t) |-> IF t[i] = "," THEN "." ELSE t[i]]

\* a text of one line whose amount has one comma between two digits, and which
\* the bot stores when the comma is written as a dot
CommaLine(t) ==
    /\ Cardinality({i \in 1..Len(t) : t[i] = ","}) = 1
    /\ \A i \in 1..Len(t) : t[i] \notin {"\n", ";", "."}
    /\ \E i \in 2..(Len(t) - 1) :
          /\ t[i] = ","
          /\ t[i - 1] \in DigitChars
          /\ t[i + 1] \in DigitChars
          /\ \A j \in 1..(i - 1) : t[j] \in DigitChars
    /\ ParseEntry(Dotted(t)).kind = "stored"

\* C12: a line whose amount has ',' for its decimal separator is one entry and
\* is stored as one row, with the amount of the same line written with '.'.
C12_CommaIsDecimalSeparator ==
    (msg # NoMsg /\ CommaLine(msg.text))
    => /\ reply.success_count = 1
       /\ reply.errors = <<>>
       /\ ledger[Len(ledger)].amount = ParseEntry(Dotted(msg.text)).amount
       /\ ledger[Len(ledger)].category = ParseEntry(Dotted(msg.text)).category

\* a letter as str.lower() returns it
Small(c) == IF c = "A" THEN "a" ELSE IF c = "ER" THEN "er" ELSE c

SmallText(t) == [i \in 1..Len(t) |-> Small(t[i])]

\* the label of an entry as the user entered it: what stands where group 2 of
\* the match stands, outer white space stripped
LabelAsEntered(e) ==
    Strip(From(e, Len(e) - Len(Match(SmallText(e)).label) + 1))

\* a text of one entry, which is stored
OneStoredEntry(t) ==
    /\ Len(EntriesOf(t)) = 1
    /\ ParseEntry(EntriesOf(t)[1]).kind = "stored"

\* C13, as claimed: the category stored for a line is its label as entered,
\* capitals kept.
C13_CategoryAsEntered ==
    (msg # NoMsg /\ OneStoredEntry(msg.text))
    => ledger[Len(ledger)].category = LabelAsEntered(EntriesOf(msg.text)[1])

\* C13, amended: the category stored for a line is its label IN SMALL LETTERS
\* (the label is taken from the lowered entry), outer white space stripped and
\* inner white space kept; the currency marker is matched in either case.
C13_CategoryLowered ==
    (msg # NoMsg /\ OneStoredEntry(msg.text))
    => /\ ledger[Len(ledger)].category
             = SmallText(LabelAsEntered(EntriesOf(msg.text)[1]))
       /\ reply.success_count = 1

\* a line with the marker and the label in capitals, and white space inside the
\* label, is stored
C13_Witness ==
    /\ msg # NoMsg
    /\ OneStoredEntry(msg.text)
    /\ \E i \in 1..Len(msg.text) : msg.text[i] = "A"
    /\ \/ \E i \in 1..Len(msg.text) : msg.text[i] = "ER"
       \/ \E i \in 2..(Len(ledger[Len(ledger)].category) - 1) :
             ledger[Len(ledger)].category[i] = " "

\* the places in the ledger of the rows of owner o created from sd to ed
Matching(o, sd, ed) ==
    {i \in 1..Len(ledger) :
        /\ ledger[i].user_id = o
        /\ DayNumber(sd) <= DayNumber(ledger[i].created)
        /\ DayNumber(ledger[i].created) <= DayNumber(ed)}

\* ... of all the rows of owner o
OwnedBy(o) == {i \in 1..Len(ledger) : ledger[i].user_id = o}

\* ... of the rows of owner o created in the month of the day now
InMonthOf(o, now) ==
    {i \in OwnedBy(o) : ledger[i].created[1] = now[1] /\ ledger[i].created[2] = now[2]}

\* the sum of the amounts of the rows at the places I
RECURSIVE SumOver(_)
SumOver(I) ==
    IF I = {} THEN 0
    ELSE LET i == CHOOSE x \in I : TRUE IN ledger[i].amount + SumOver(I \ {i})

\* the sum of the totals of the first n lines of r
RECURSIVE SumLines(_, _)
SumLines(r, n) == IF n = 0 THEN 0 ELSE r.lines[n].total + SumLines(r, n - 1)

\* the report r lists the rows at the places I: every category of theirs once,
\* with the sum of its rows, by falling total, and the total of the lines
Lists(r, I) ==
    /\ {r.lines[k].category : k \in 1..Len(r.lines)} = {ledger[i].category : i \in I}
    /\ \A k \in 1..Len(r.lines) : \A l \in 1..Len(r.lines) :
          k # l => r.lines[k].category # r.lines[l].category
    /\ \A k \in 1..Len(r.lines) :
          r.lines[k].total = SumOver({i \in I : ledger[i].category = r.lines[k].category})
    /\ \A k \in 1..(Len(r.lines) - 1) : r.lines[k].total >= r.lines[k + 1].total
    /\ r.total = SumLines(r, Len(r.lines))

\* C14: the report of a period, of a month and of all time lists every category
\* of the matching rows of its owner exactly once, with the sum of the
\* category's matching amounts, by falling total, and its grand total is the
\* sum of the totals listed.
C14_ReportAggregates ==
    [][/\ \A i \in 1..Len(calls) :
             (/\ Matching(calls[i].chat, calls[i].start, calls[i].end) # {}
              /\ ReportReturn(i))
             => Lists(report', Matching(calls[i].chat, calls[i].start, calls[i].end))
       /\ \A u \in Users :
             (OwnedBy(u) # {} /\ ShowAllStats(u)) => Lists(report', OwnedBy(u))
       /\ \A u \in Users : \A now \in Dates :
             (InMonthOf(u, now) # {} /\ ShowMonthStats(u, now))
             => Lists(report', InMonthOf(u, now))]_vars

\* a report of two lines with different totals, one of them the sum of two
\* rows, from a ledger with a row that does not match
C14_Witness ==
    /\ report.kind = "period"
    /\ Len(report.lines) = 2
    /\ report.lines[1].total > report.lines[2].total
    /\ Len(ledger) = MaxRows
    /\ report.total < SumOver(1..Len(ledger))
    /\ \E i \in 1..Len(ledger) : report.lines[1].total > ledger[i].amount
                                 /\ report.lines[1].category = ledger[i].category

\* the first of the places I with a row of category c
FirstSeen(I, c) ==
    CHOOSE i \in I : /\ ledger[i].category = c
                     /\ \A j \in I : ledger[j].category = c => i <= j

\* the lines of r with equal totals stand in the order in which their
\* categories are first seen among the rows at the places I
TiesAsFirstSeen(r, I) ==
    \A k \in 1..Len(r.lines) : \A l \in 1..Len(r.lines) :
        (k < l /\ r.lines[k].total = r.lines[l].total)
        => FirstSeen(I, r.lines[k].category) < FirstSeen(I, r.lines[l].category)

\* C15, as claimed: categories with equal totals are listed in the order in
\* which each is first seen among the rows retrieved.
C15_TiesInFirstSeenOrder ==
    [][/\ \A i \in 1..Len(calls) :
             (/\ Matching(calls[i].chat, calls[i].start, calls[i].end) # {}
              /\ ReportReturn(i))
             => TiesAsFirstSeen(report',
                   Matching(calls[i].chat, calls[i].start, calls[i].end))
       /\ \A u \in Users :
             (OwnedBy(u) # {} /\ ShowAllStats(u)) => TiesAsFirstSeen(report', OwnedBy(u))]_vars

\* the lines of r with equal totals stand next to one another
TiesTogether(r) ==
    \A k \in 1..Len(r.lines) : \A l \in 1..Len(r.lines) : \A m \in 1..Len(r.lines) :
        (k < m /\ m < l /\ r.lines[k].total = r.lines[l].total)
        => r.lines[m].total = r.lines[k].total

\* C15, amended: categories with equal totals are each listed once, NEXT TO ONE
\* ANOTHER, IN AN ORDER THE CODE DOES NOT FIX (it is left to the sort of the
\* library and of the database), which need not be the order of first
\* appearance.
C15_TiesTogether ==
    [][/\ \A i \in 1..Len(calls) :
             (/\ Matching(calls[i].chat, calls[i].start, calls[i].end) # {}
              /\ ReportReturn(i))
             => /\ TiesTogether(report')
                /\ Len(report'.lines) = Cardinality(
                      {ledger[j].category :
                         j \in Matching(calls[i].chat, calls[i].start, calls[i].end)})
       /\ \A u \in Users :
             (OwnedBy(u) # {} /\ ShowAllStats(u))
             => /\ TiesTogether(report')
                /\ Len(report'.lines) = Cardinality({ledger[j].category : j \in OwnedBy(u)})]_vars

\* all rows are of one owner and one day, and the report lists two categories
\* of equal totals against the order of their first appearance
C15_Witness ==
    /\ report.kind = "period"
    /\ \A i \in 1..Len(ledger) : ledger[i].user_id = ledger[1].user_id
                                 /\ ledger[i].created = ledger[1].created
    /\ \E k \in 1..Len(report.lines) : \E l \in 1..Len(report.lines) :
          /\ k < l
          /\ report.lines[k].total = report.lines[l].total
          /\ FirstSeen(1..Len(ledger), report.lines[l].category)
                < FirstSeen(1..Len(ledger), report.lines[k].category)

\* C16: a period report with no matching row is the notice "no data for this
\* period" and nothing else, no error and no chart; and the chart is never
\* drawn from an empty summary.
C16_EmptyReportIsNotice ==
    /\ [][\A i \in 1..Len(calls) :
            (/\ Matching(calls[i].chat, calls[i].start, calls[i].end) = {}
             /\ ReportReturn(i))
            => /\ last_out' = "no_data"
               /\ report' = NoReport]_vars
    /\ [](report.charted => report.lines # <<>>)
    /\ [](last_out = "report_and_chart" => report.charted)

\* the notice has been sent for a ledger that has rows, none of them matching
C16_Witness ==
    /\ last_out = "no_data"
    /\ ledger # <<>>
    /\ calls = <<>>
    /\ ~report.charted

\* C19: the report of a user's end pick or single-day confirmation lists the
\* rows written under that user (message.from_user.id of handle_expense) in
\* the range, in whatever chat the user acts: it is the notice exactly when
\* the user has no row in the range, and else lists those rows.
C19_ReportReadsOwnersRows ==
    [][\A i \in 1..Len(calls) :
         ReportReturn(i)
         => LET own == Matching(calls[i].from, calls[i].start, calls[i].end)
            IN  /\ (last_out' = "no_data") <=> (own = {})
                /\ own # {} => Lists(report', own)]_vars

\* the rows handle_expense parsed successfully from the text of the message
ParsedRows ==
    {StoredRows(Outcomes(Entries(Strip(msg.text))), msg.from, d) : d \in EntryDays}

\* the ledgers that hold none or all of the rows of the message
NoneOrAll ==
    InitLedgers \cup {l \o rows : l \in InitLedgers, rows \in ParsedRows}

\* C17: the records of one submission commit together or not at all: the
\* ledger that other connections read holds, at every moment, either none of
\* the rows of the successfully parsed lines of the message or all of them,
\* and so does the total of an all-time report read in between.
C17_SubmissionCommitsWhole ==
    /\ ledger \in NoneOrAll
    /\ report.kind = "all" =>
          \E l \in NoneOrAll :
             report.total = SumAmounts(SelectSeq(l, LAMBDA r : r.user_id = 1))

\* C18: a failure of the ledger store is told to the user as such: every
\* request is answered, that of a failed commit and of a failed read too, and
\* no line is reported with a reason of the parser that the parser did not
\* give it.
C18_StoreFailureSurfaced ==
    /\ reply.kind # "unanswered"
    /\ last_out # "unanswered"
    /\ \A i \in DOMAIN reply.errors :
          reply.errors[i].reason = ParseEntry(reply.errors[i].text).kind

\* the step is a start-mode day pick in chat c, which writes the entry of c
StartPickIn(c) ==
    \E s \in screens : \E b \in Keyboard(s), u \in Members(s.chat) :
       /\ s.chat = c
       /\ b.k = "day"
       /\ b.mode = "start"
       /\ user_selections' = [user_selections EXCEPT ![c] = Selected(b)]
       /\ StartPick(u, s, b)

\* the step completes an end-mode day pick in chat c: its report has
\* returned, and the entry of c is removed
EndPickCompletedIn(c) ==
    \E i \in 1..Len(calls) :
       /\ calls[i].chat = c
       /\ calls[i].k = "day"
       /\ user_selections' = Pop(user_selections, c)
       /\ ReportReturn(i)

\* C20: the selection map changes only in a start-mode day pick, which sets
\* the entry of the chat it is made in, and when an end-mode day pick
\* completes, which removes it; every other step of every handler (a text
\* message, the statistics of the month or of all time, a new calendar, a
\* navigation, a single-day confirmation, a rejected end pick) leaves every
\* entry as it was.
C20_OnlyDayPicksChangeSelections ==
    [][user_selections' # user_selections =>
          \E c \in Chats :
             /\ \A o \in Chats \ {c} : user_selections'[o] = user_selections[o]
             /\ StartPickIn(c) \/ EndPickCompletedIn(c)]_vars

\* an abandoned selection is still live after a text message was handled, the
\* statistics were sent, another calendar was opened and a single day of it
\* confirmed
C20_Witness ==
    /\ \E c \in Chats : user_selections[c] # NoDate
    /\ msg # NoMsg
    /\ last_out = "stats"
    /\ \E s \in screens : s.mode = "start"
    /\ \E i \in 1..Len(calls) : calls[i].k = "single"

====
